---- MODULE Spec2Model ----
(***************************************************************************)
(* Model of src/src/components/UniformBadgeVisualizer.tsx:                 *)
(*   - computeLayout, the layout engine (lines 234-321);                   *)
(*   - fitFontSize / getCtx, the text fit helpers (lines 24-62);           *)
(*   - the UniformBadgeVisualizer component's state and handlers           *)
(*     (lines 71-140, 153, 214-225).                                       *)
(*                                                                         *)
(* Geometry.  The code divides by two when it centres tiles, so x, y, w, h *)
(* of a placement are kept in HALF pixels (Px(v) = 2 * v): every value the *)
(* code computes from integer boxes is then an integer, exactly.           *)
(*                                                                         *)
(* Numbers in fitFontSize.  Box sizes, padding and the measured text width *)
(* are integers, maxHeightRatio is a number of tenths; floor(min(a, b)) is *)
(* computed as min(floor(a), floor(b)) with integer division.              *)
(***************************************************************************)
EXTENDS Integers, Sequences, FiniteSets, TLC

VARIABLES
    slots,          \* the slot table imported from ../data/slots.json
    selectedIds,    \* the argument of the last computeLayout call
    layout,         \* computeLayout(...).layout
    warnings,       \* computeLayout(...).warnings
    pc,             \* "input" | "done" | "reordered", "ui", "fontInput" | "fontDone" | "fontAgain"
    prevIds,        \* the argument of the computeLayout call before the last one
    prevLayout,     \* ... and its result
    prevWarnings,
    selectedRank, selectedSAF, selectedFOR, selectedMED, selectedPROF,
    confirmed,      \* the component's useState values (lines 72-77)
    sinceConfirm,   \* history: "never" | "clean" | "changed"
    badgesGroup,    \* the placements drawn in <g id="badges"> (lines 214-225)
    exported,       \* what the last exported PNG shows: "none" | "blank" | "badges"
    measureCtx,     \* _measureCtx (line 24): "null" | "ctx"
    canvasSupported,\* whether canvas.getContext('2d') yields a context
    call,           \* the arguments of the last fitFontSize call
    fontSize        \* its result

layoutVars == <<slots, selectedIds, layout, warnings, prevIds, prevLayout, prevWarnings>>
uiVars     == <<selectedRank, selectedSAF, selectedFOR, selectedMED, selectedPROF,
                confirmed, sinceConfirm, badgesGroup, exported>>
fontVars   == <<measureCtx, canvasSupported, call, fontSize>>
vars       == <<layoutVars, uiVars, fontVars, pc>>

Min(a, b) == IF a < b THEN a ELSE b
Max(a, b) == IF a > b THEN a ELSE b
Range(seq) == {seq[i] : i \in 1..Len(seq)}
Prefix(seq, n) == SubSeq(seq, 1, Min(n, Len(seq)))

\* Pixels to the half-pixel unit of placements.
Px(v) == 2 * v

(***************************************************************************)
(* Reference data (lines 2-8).  The JSON files are data, not code: the     *)
(* item table below is one table with every category, a badge whose slot   *)
(* is missing from the slot table, and the slot tables are drawn in Init.  *)
(***************************************************************************)
BadgeIds == <<"sergeant", "corporal", "tab", "s1", "s2", "s3", "s4", "f1", "m1", "m2", "p1", "orphan">>

badges == [id \in {BadgeIds[i] : i \in 1..Len(BadgeIds)} |->
    CASE id = "sergeant" -> [label |-> "SGT",  category |-> "rank",        slot |-> "leftSleeveRank",         color |-> "#111", asset |-> "none"]
      [] id = "corporal" -> [label |-> "CPL",  category |-> "rank",        slot |-> "leftSleeveRank",         color |-> "#222", asset |-> "none"]
      [] id = "tab"      -> [label |-> "TAB",  category |-> "rank",        slot |-> "collarTab",              color |-> "#333", asset |-> "none"]
      [] id = "s1"       -> [label |-> "SAF1", category |-> "saf",         slot |-> "safBadges",              color |-> "#a00", asset |-> "none"]
      [] id = "s2"       -> [label |-> "SAF2", category |-> "saf",         slot |-> "safBadges",              color |-> "#b00", asset |-> "none"]
      [] id = "s3"       -> [label |-> "SAF3", category |-> "saf",         slot |-> "safBadges",              color |-> "#c00", asset |-> "none"]
      [] id = "s4"       -> [label |-> "SAF4", category |-> "saf",         slot |-> "safBadges",              color |-> "#d00", asset |-> "none"]
      [] id = "f1"       -> [label |-> "FOR1", category |-> "foreign",     slot |-> "foreignBadges",          color |-> "#0a0", asset |-> "none"]
      [] id = "m1"       -> [label |-> "MED1", category |-> "medal",       slot |-> "medalsBelowRightPocket", color |-> "#00a", asset |-> "none"]
      [] id = "m2"       -> [label |-> "MED2", category |-> "medal",       slot |-> "medalsBelowRightPocket", color |-> "#00b", asset |-> "none"]
      [] id = "p1"       -> [label |-> "PRO1", category |-> "proficiency", slot |-> "rightSleeveProficiency", color |-> "#aa0", asset |-> "none"]
      [] id = "orphan"   -> [label |-> "ORPH", category |-> "medal",       slot |-> "noSuchSlot",             color |-> "#eee", asset |-> "none"]]

\* An id the item table does not hold.
GhostId == "ghost"

SlotKeys == {"leftSleeveRank", "collarTab", "safBadges", "foreignBadges",
             "medalsBelowRightPocket", "rightSleeveProficiency"}

Box(bx, by, bw, bh, bz) == [x |-> bx, y |-> by, w |-> bw, h |-> bh, z |-> bz]

\* Roomy boxes: every tile keeps its fixed size.
RoomySlots == [k \in SlotKeys |->
    CASE k = "leftSleeveRank"         -> Box(120, 350, 80, 100, 4)
      [] k = "collarTab"              -> Box(450, 120, 40, 30, 6)
      [] k = "safBadges"              -> Box(560, 300, 200, 130, 2)
      [] k = "foreignBadges"          -> Box(240, 300, 201, 131, 2)
      [] k = "medalsBelowRightPocket" -> Box(540, 450, 240, 60, 3)
      [] k = "rightSleeveProficiency" -> Box(800, 350, 80, 200, 1)]

\* Tight boxes: the tiles are clamped to the box (w < 90, h < 60) and the
\* medal box is taller than the 400 clamp.
TightSlots == [k \in SlotKeys |->
    CASE k = "leftSleeveRank"         -> Box(0, 0, 1, 1, 5)
      [] k = "collarTab"              -> Box(2, 2, 3, 5, 5)
      [] k = "safBadges"              -> Box(10, 20, 75, 41, 5)
      [] k = "foreignBadges"          -> Box(0, 0, 1, 1, 5)
      [] k = "medalsBelowRightPocket" -> Box(3, 7, 30, 450, 5)
      [] k = "rightSleeveProficiency" -> Box(900, 1100, 1, 1, 5)]

SlotTables == {RoomySlots, TightSlots}

(***************************************************************************)
(* computeLayout (lines 234-321)                                           *)
(***************************************************************************)

\* lines 241-245: the id is a key of badges and its slot a key of slots.
Resolves(id) ==
    /\ id \in DOMAIN badges
    /\ badges[id].slot \in DOMAIN slots

\* line 246: the entry pushed for a resolved id.
Entry(id) ==
    LET spec == badges[id]
        box  == slots[spec.slot]
    IN [id |-> id, label |-> spec.label, slot |-> spec.slot,
        x |-> Px(box.x), y |-> Px(box.y), w |-> Px(box.w), h |-> Px(box.h),
        z |-> box.z, color |-> spec.color, asset |-> spec.asset]

\* A grouping without the test of line 245: an item whose slot is unknown is
\* kept, with an empty box.
GroupEntriesNoSlotCheck(ids) ==
    LET known == SelectSeq(ids, LAMBDA id : id \in DOMAIN badges)
    IN [i \in 1..Len(known) |->
          IF Resolves(known[i]) THEN Entry(known[i])
          ELSE [id |-> known[i], label |-> badges[known[i]].label,
                slot |-> badges[known[i]].slot, x |-> 0, y |-> 0, w |-> 0, h |-> 0,
                z |-> 0, color |-> badges[known[i]].color, asset |-> badges[known[i]].asset]]

\* lines 240-249: the entries of the resolved ids, in selection order.
GroupEntries(ids) ==
    LET resolved == SelectSeq(ids, Resolves)
    IN [i \in 1..Len(resolved) |-> Entry(resolved[i])]

\* Object.entries(bySlot) (line 251): the slot keys in the order the loop
\* of lines 240-249 first created them.
SlotOrder(entries) ==
    LET firsts == SelectSeq([i \in 1..Len(entries) |-> i],
                            LAMBDA i : \A j \in 1..(i-1) : entries[j].slot # entries[i].slot)
    IN [k \in 1..Len(firsts) |-> entries[firsts[k]].slot]

\* A grouping that only collects the first run of adjacent entries of the slot.
ItemsOfAdjacent(entries, slotKey) ==
    LET first == CHOOSE i \in 1..Len(entries) : entries[i].slot = slotKey
                     /\ \A j \in 1..(i-1) : entries[j].slot # slotKey
        run   == CHOOSE n \in first..Len(entries) :
                     /\ \A j \in first..n : entries[j].slot = slotKey
                     /\ (n = Len(entries) \/ entries[n+1].slot # slotKey)
    IN SubSeq(entries, first, run)

\* bySlot[slotKey] (lines 247-248).
ItemsOf(entries, slotKey) == SelectSeq(entries, LAMBDA e : e.slot = slotKey)

Moved(it, nx, ny, nw, nh) == [it EXCEPT !.x = nx, !.y = ny, !.w = nw, !.h = nh]

pyramidGap == 8
pyramidTileH == 60
pyramidTileW == 90
pyramidMax == 3

\* The warning with a colon after the slot key.
MaxThreeWarningColon(slotKey) == slotKey \o ": allows max 3; extra selections ignored."

\* line 255: the template literal.
MaxThreeWarning(slotKey) == slotKey \o " allows max 3; extra selections ignored."

\* The warning test off by one: items.length >= 3.
PyramidWarningsFromThree(slotKey, items) ==
    IF Len(items) >= pyramidMax THEN <<MaxThreeWarning(slotKey)>> ELSE <<>>

\* line 255
PyramidWarnings(slotKey, items) ==
    IF Len(items) > pyramidMax THEN <<MaxThreeWarning(slotKey)>> ELSE <<>>

\* lines 253-290
PyramidRule(slotKey, items) ==
    LET box   == slots[slotKey]
        n     == Min(pyramidMax, Len(items))
        gap   == pyramidGap
        tileH == Min(box.h, pyramidTileH)
        tileW == Min(box.w, pyramidTileW)
        totalW == tileW * 2 + gap
        startX == Px(box.x) + (box.w - totalW)
        centreX == Px(box.x) + (box.w - tileW)
        row(from, y) == [i \in 1..2 |->
            Moved(items[from + i - 1], startX + (i - 1) * Px(tileW + gap), y, Px(tileW), Px(tileH))]
    IN [placed |->
            IF n = 1 THEN <<Moved(items[1], centreX, Px(box.y), Px(tileW), Px(tileH))>>
            ELSE IF n = 2 THEN row(1, Px(box.y))
            ELSE <<Moved(items[1], centreX, Px(box.y), Px(tileW), Px(tileH))>>
                 \o row(2, Px(box.y + tileH + gap)),
        warnings |-> PyramidWarnings(slotKey, items)]

medalGap == 10
medalMaxH == 400
medalTileW == 50

\* A medal row that keeps three medals at most.
MedalRowRuleClamped(slotKey, items) ==
    LET box == slots[slotKey]
        n   == Min(3, Len(items))
        startX == Px(box.x) + (box.w - (n * medalTileW + (n - 1) * medalGap))
    IN [placed |-> [i \in 1..n |->
            Moved(items[i], startX + (i - 1) * Px(medalTileW + medalGap), Px(box.y),
                  Px(medalTileW), Px(Min(box.h, medalMaxH)))],
        warnings |-> <<>>]

\* lines 291-303
MedalRowRule(slotKey, items) ==
    LET box   == slots[slotKey]
        gap   == medalGap
        tileH == Min(box.h, medalMaxH)
        tileW == medalTileW
        n     == Len(items)
        totalW == n * tileW + (n - 1) * gap
        startX == Px(box.x) + (box.w - totalW)
    IN [placed |-> [i \in 1..n |->
            Moved(items[i], startX + (i - 1) * Px(tileW + gap), Px(box.y), Px(tileW), Px(tileH))],
        warnings |-> <<>>]

stackGap == 8
stackTileH == 36

\* A stack that steps by the gap alone: y = box.y + i * gap.
VerticalStackRuleGapOnly(slotKey, items) ==
    [placed |-> [i \in 1..Len(items) |->
        Moved(items[i], Px(slots[slotKey].x), Px(slots[slotKey].y + (i - 1) * stackGap),
              Px(slots[slotKey].w), Px(stackTileH))],
     warnings |-> <<>>]

\* lines 304-313
VerticalStackRule(slotKey, items) ==
    LET box   == slots[slotKey]
        gap   == stackGap
        tileH == stackTileH
    IN [placed |-> [i \in 1..Len(items) |->
            Moved(items[i], Px(box.x), Px(box.y + (i - 1) * (tileH + gap)), Px(box.w), Px(tileH))],
        warnings |-> <<>>]

MultipleWarning(slotKey) == slotKey \o ": multiple selections; only first shown."

\* A single-occupancy rule that shows the last item instead of the first.
SingleRuleLast(slotKey, items) ==
    [placed |-> <<items[Len(items)]>>,
     warnings |-> IF Len(items) > 1 THEN <<MultipleWarning(slotKey)>> ELSE <<>>]

\* lines 314-317
SingleRule(slotKey, items) ==
    [placed |-> <<items[1]>>,
     warnings |-> IF Len(items) > 1 THEN <<MultipleWarning(slotKey)>> ELSE <<>>]

\* lines 253, 291, 304, 314: the rule of a slot key.
Arrange(slotKey, items) ==
    IF slotKey = "safBadges" \/ slotKey = "foreignBadges" THEN PyramidRule(slotKey, items)
    ELSE IF slotKey = "medalsBelowRightPocket" THEN MedalRowRule(slotKey, items)
    ELSE IF slotKey = "rightSleeveProficiency" THEN VerticalStackRule(slotKey, items)
    ELSE SingleRule(slotKey, items)

\* The pushes of the slots' rules, one after the other.
RECURSIVE Flat(_)
Flat(seqs) == IF seqs = <<>> THEN <<>> ELSE Head(seqs) \o Flat(Tail(seqs))

\* lines 234-321
computeLayout(ids) ==
    LET entries  == GroupEntries(ids)
        order    == SlotOrder(entries)
        arranged == [i \in 1..Len(order) |-> Arrange(order[i], ItemsOf(entries, order[i]))]
    IN [layout   |-> Flat([i \in 1..Len(order) |-> arranged[i].placed]),
        warnings |-> Flat([i \in 1..Len(order) |-> arranged[i].warnings])]

(***************************************************************************)
(* Text fit helpers (lines 24-62).  A label is its length and the width    *)
(* the canvas measures for it at the 100px baseline (0 when measureText    *)
(* reports no width); opts holds the options the caller gave.              *)
(***************************************************************************)
defaultPadding == 8
defaultRatioTenths == 7
minFont == 10
fallbackFont == 18
BASE == 100
perCharWidth == 60
minAvailableW == 10

\* lines 25-30: the cached context, or the one the canvas yields.
getCtx ==
    IF measureCtx # "null" THEN measureCtx
    ELSE IF canvasSupported THEN "ctx" ELSE "null"

\* The fallback without the height bound.
fallbackSizeFixed(maxFontByHeight10) == fallbackFont

\* line 50: Math.floor(Math.min(18, maxFontByHeight)), the bound in tenths.
fallbackSize(maxFontByHeight10) == Min(fallbackFont, maxFontByHeight10 \div 10)

\* The padding added instead of subtracted.
availableWidthPlus(boxW, padding) == Max(minAvailableW, boxW + padding * 2)

\* line 57
availableWidth(boxW, padding) == Max(minAvailableW, boxW - padding * 2)

\* lines 37-62
fitFontSize(label, boxW, boxH, opts) ==
    LET ctx == getCtx
        padding == IF "padding" \in DOMAIN opts THEN opts.padding ELSE defaultPadding
        ratio10 == IF "maxHeightRatio" \in DOMAIN opts THEN opts.maxHeightRatio
                   ELSE defaultRatioTenths
        maxFontByHeight10 == Max(minFont * 10, boxH * ratio10)
        measured == IF label.width # 0 THEN label.width ELSE perCharWidth * label.len
        availableW == availableWidth(boxW, padding)
    IN IF ctx = "null" THEN fallbackSize(maxFontByHeight10)
       ELSE IF measured = 0
            THEN Max(minFont, maxFontByHeight10 \div 10)   \* fontByWidth is Infinity
            ELSE Max(minFont, Min(maxFontByHeight10 \div 10, (availableW * BASE) \div measured))

MaxBoxW == 30
MaxBoxH == 30
MaxLabelLen == 1
MaxMeasure == 3
MeasureStep == 50

Labels == [len : 0..MaxLabelLen, width : {0} \cup {MeasureStep * k : k \in 1..MaxMeasure}]

NoOpts == [n \in {} |-> 0]

OptsGiven == {NoOpts, [padding |-> 0], [maxHeightRatio |-> 5], [maxHeightRatio |-> 10],
              [maxHeightRatio |-> 12], [padding |-> 0, maxHeightRatio |-> 10]}

Calls == [label : Labels, boxW : 1..MaxBoxW, boxH : 1..MaxBoxH, opts : OptsGiven]

LayoutIdle ==
    /\ slots = RoomySlots /\ selectedIds = <<>> /\ layout = <<>> /\ warnings = <<>>
    /\ prevIds = <<>> /\ prevLayout = <<>> /\ prevWarnings = <<>>

(***************************************************************************)
(* The layout engine as a state machine: a selection and a slot table are  *)
(* drawn, computeLayout runs on them, and may run again on a reordering of *)
(* the same selection.                                                     *)
(***************************************************************************)
MaxSel == 4
MaxPermLen == 3

\* The ids a caller passes: ids of every category, the badge whose slot is
\* unknown, and an id that is no key of the item table.
LayoutIds == {"sergeant", "corporal", "tab", "s1", "s2", "f1", "m1", "m2", "p1", "orphan", GhostId}

Selections == UNION {[1..n -> LayoutIds] : n \in 0..MaxSel}

Reorderings(ids) ==
    {[i \in 1..Len(ids) |-> ids[p[i]]] : p \in Permutations(1..Len(ids))}

UiIdle ==
    /\ selectedRank = "" /\ selectedSAF = <<>> /\ selectedFOR = <<>>
    /\ selectedMED = <<>> /\ selectedPROF = <<>>
    /\ confirmed = FALSE /\ sinceConfirm = "never" /\ badgesGroup = <<>>
    /\ exported = "none"

NoCall == [label |-> [len |-> 0, width |-> 0], boxW |-> 1, boxH |-> 1, opts |-> NoOpts]

FontIdle ==
    /\ measureCtx = "null" /\ canvasSupported = TRUE /\ call = NoCall /\ fontSize = 0

Init ==
    /\ slots \in SlotTables
    /\ selectedIds \in Selections
    /\ layout = <<>> /\ warnings = <<>>
    /\ prevIds = <<>> /\ prevLayout = <<>> /\ prevWarnings = <<>>
    /\ pc = "input"
    /\ UiIdle /\ FontIdle

\* computeLayout(selectedIds), line 88 / lines 234-321.
ComputeLayout ==
    /\ pc = "input"
    /\ \E result \in {computeLayout(selectedIds)} :
        /\ layout' = result.layout
        /\ warnings' = result.warnings
    /\ pc' = "done"
    /\ UNCHANGED <<slots, selectedIds, prevIds, prevLayout, prevWarnings, uiVars, fontVars>>

\* computeLayout called again on the same ids in another order.
Reorder ==
    /\ pc = "done"
    /\ Len(selectedIds) <= MaxPermLen
    /\ \E perm \in Reorderings(selectedIds) :
        /\ perm # selectedIds
        /\ prevIds' = selectedIds /\ prevLayout' = layout /\ prevWarnings' = warnings
        /\ selectedIds' = perm
        /\ \E result \in {computeLayout(perm)} :
            /\ layout' = result.layout
            /\ warnings' = result.warnings
    /\ pc' = "reordered"
    /\ UNCHANGED <<slots, uiVars, fontVars>>

Next == ComputeLayout \/ Reorder

Spec == Init /\ [][Next]_vars

(***************************************************************************)
(* The component (lines 65-232): its state, its handlers and what a render *)
(* draws.  Every handler is followed by the render it triggers.            *)
(***************************************************************************)
\* lines 65-69: the ids of a category, in the item table's key order.
IdsOfCategory(cat) == SelectSeq(BadgeIds, LAMBDA id : badges[id].category = cat)

RANK_IDS == IdsOfCategory("rank")
SAF_IDS  == IdsOfCategory("saf")
FOR_IDS  == IdsOfCategory("foreign")
MED_IDS  == IdsOfCategory("medal")
PROF_IDS == IdsOfCategory("proficiency")

\* e.target.selectedOptions for the chosen options: in document order.
SelectedOptions(options, chosen) == SelectSeq(options, LAMBDA id : id \in chosen)

\* lines 81-87: the ids passed to computeLayout; filter(Boolean) drops "".
MemoIds(rank, saf, for, med, prof) ==
    (IF rank = "" THEN <<>> ELSE <<rank>>) \o saf \o for \o med \o prof

\* line 216: layout.sort((a, b) => a.z - b.z), a stable sort, in place.
RECURSIVE SortFrom(_, _)
SortFrom(seq, zs) ==
    IF zs = {} THEN <<>>
    ELSE LET m == CHOOSE v \in zs : \A u \in zs : v <= u
         IN SelectSeq(seq, LAMBDA e : e.z = m) \o SortFrom(seq, zs \ {m})

SortByZ(seq) == SortFrom(seq, {seq[i].z : i \in 1..Len(seq)})

\* lines 80-89 and 214-225: the render after a handler left the state at
\* (rank, saf, for, med, prof, conf).  recompute: the memo's dependencies
\* changed.
Render(rank, saf, for, med, prof, conf, recompute) ==
    \E memo \in {IF recompute THEN computeLayout(MemoIds(rank, saf, for, med, prof))
                  ELSE [layout |-> layout, warnings |-> warnings]} :
       /\ selectedIds' = MemoIds(rank, saf, for, med, prof)
       /\ warnings' = memo.warnings
       /\ layout' = IF conf THEN SortByZ(memo.layout) ELSE memo.layout
       /\ badgesGroup' = IF conf THEN layout' ELSE <<>>
       /\ measureCtx' = IF conf /\ layout' # <<>> THEN getCtx ELSE measureCtx
       /\ UNCHANGED <<slots, prevIds, prevLayout, prevWarnings, canvasSupported, call, fontSize, pc>>

\* The history of the events: a selection change after a confirm.
Changed == IF sinceConfirm = "never" THEN "never" ELSE "changed"

InitUI ==
    /\ slots = RoomySlots
    /\ canvasSupported \in BOOLEAN
    /\ selectedIds = <<>> /\ layout = <<>> /\ warnings = <<>>
    /\ prevIds = <<>> /\ prevLayout = <<>> /\ prevWarnings = <<>>
    /\ UiIdle
    /\ measureCtx = "null" /\ call = NoCall /\ fontSize = 0
    /\ pc = "ui"

\* line 153: the rank select's onChange.
onChangeRank ==
    \E value \in {""} \cup Range(RANK_IDS) :
        /\ selectedRank' = value
        /\ confirmed' = FALSE
        /\ sinceConfirm' = Changed
        /\ UNCHANGED <<selectedSAF, selectedFOR, selectedMED, selectedPROF, exported>>
        /\ Render(value, selectedSAF, selectedFOR, selectedMED, selectedPROF, FALSE, TRUE)

\* lines 91-94
onChangeSAF ==
    \E chosen \in SUBSET Range(SAF_IDS) :
        LET values == Prefix(SelectedOptions(SAF_IDS, chosen), 3)
        IN /\ selectedSAF' = values
           /\ confirmed' = FALSE
           /\ sinceConfirm' = Changed
           /\ UNCHANGED <<selectedRank, selectedFOR, selectedMED, selectedPROF, exported>>
           /\ Render(selectedRank, values, selectedFOR, selectedMED, selectedPROF, FALSE, TRUE)

\* lines 95-98
onChangeFOR ==
    \E chosen \in SUBSET Range(FOR_IDS) :
        LET values == Prefix(SelectedOptions(FOR_IDS, chosen), 3)
        IN /\ selectedFOR' = values
           /\ confirmed' = FALSE
           /\ sinceConfirm' = Changed
           /\ UNCHANGED <<selectedRank, selectedSAF, selectedMED, selectedPROF, exported>>
           /\ Render(selectedRank, selectedSAF, values, selectedMED, selectedPROF, FALSE, TRUE)

\* onChangeMED without setConfirmed(false).
onChangeMEDKeepsConfirmed ==
    \E chosen \in SUBSET Range(MED_IDS) :
        LET values == SelectedOptions(MED_IDS, chosen)
        IN /\ selectedMED' = values
           /\ confirmed' = confirmed
           /\ sinceConfirm' = Changed
           /\ UNCHANGED <<selectedRank, selectedSAF, selectedFOR, selectedPROF, exported>>
           /\ Render(selectedRank, selectedSAF, selectedFOR, values, selectedPROF, confirmed, TRUE)

\* lines 99-102
onChangeMED ==
    \E chosen \in SUBSET Range(MED_IDS) :
        LET values == SelectedOptions(MED_IDS, chosen)
        IN /\ selectedMED' = values
           /\ confirmed' = FALSE
           /\ sinceConfirm' = Changed
           /\ UNCHANGED <<selectedRank, selectedSAF, selectedFOR, selectedPROF, exported>>
           /\ Render(selectedRank, selectedSAF, selectedFOR, values, selectedPROF, FALSE, TRUE)

\* lines 103-106
onChangePROF ==
    \E chosen \in SUBSET Range(PROF_IDS) :
        LET values == SelectedOptions(PROF_IDS, chosen)
        IN /\ selectedPROF' = values
           /\ confirmed' = FALSE
           /\ sinceConfirm' = Changed
           /\ UNCHANGED <<selectedRank, selectedSAF, selectedFOR, selectedMED, exported>>
           /\ Render(selectedRank, selectedSAF, selectedFOR, selectedMED, values, FALSE, TRUE)

\* line 108
confirm ==
    /\ confirmed' = TRUE
    /\ sinceConfirm' = "clean"
    /\ UNCHANGED <<selectedRank, selectedSAF, selectedFOR, selectedMED, selectedPROF, exported>>
    /\ Render(selectedRank, selectedSAF, selectedFOR, selectedMED, selectedPROF, TRUE, FALSE)

\* lines 110-140: the svg as drawn at the click is serialized; without a 2d
\* context nothing is downloaded.
downloadPNG ==
    /\ exported' = IF ~canvasSupported THEN exported
                   ELSE IF badgesGroup # <<>> THEN "badges" ELSE "blank"
    /\ UNCHANGED <<layoutVars, fontVars, pc, selectedRank, selectedSAF, selectedFOR,
                   selectedMED, selectedPROF, confirmed, sinceConfirm, badgesGroup>>

NextUI ==
    \/ onChangeRank \/ onChangeSAF \/ onChangeFOR \/ onChangeMED \/ onChangePROF
    \/ confirm \/ downloadPNG

SpecUI == InitUI /\ [][NextUI]_vars

(***************************************************************************)
(* Vocabulary of the claims about computeLayout, stated on the call's      *)
(* argument and result, independently of the code's own helpers.           *)
(***************************************************************************)
Computed == pc = "done" \/ pc = "reordered"

PyramidSlots == {"safBadges", "foreignBadges"}
FlowSlots    == {"medalsBelowRightPocket", "rightSleeveProficiency"}
SingleSlots  == DOMAIN slots \ (PyramidSlots \cup FlowSlots)

\* The selected ids that resolve to a slot, in selection order.
IdsFor(ids, slotKey) ==
    SelectSeq(ids, LAMBDA id : id \in DOMAIN badges /\ badges[id].slot = slotKey
                                /\ slotKey \in DOMAIN slots)

\* The placements returned for a slot, in the order returned, and their ids.
PlacedIn(lay, slotKey) == SelectSeq(lay, LAMBDA e : e.slot = slotKey)
PlacedIds(lay, slotKey) ==
    [i \in 1..Len(PlacedIn(lay, slotKey)) |-> PlacedIn(lay, slotKey)[i].id]

MaxThreeTexts(slotKey) ==
    {slotKey \o " allows max 3; extra selections ignored.",
     slotKey \o ": allows max 3; extra selections ignored."}

\* C1: for each pyramid slot, the placements are the first min(3, k) ids that
\* resolve to it, in selection order, and a max-3 warning for the slot is
\* present iff k > 3.
C1_PyramidClamp ==
    Computed =>
        \A s \in PyramidSlots :
            LET k == Len(IdsFor(selectedIds, s))
            IN /\ Len(PlacedIn(layout, s)) = Min(3, k)
               /\ PlacedIds(layout, s) = Prefix(IdsFor(selectedIds, s), 3)
               /\ (MaxThreeTexts(s) \cap Range(warnings) # {}) <=> (k > 3)

C1_Witness ==
    /\ pc = "done"
    /\ Len(IdsFor(selectedIds, "safBadges")) > 3
    /\ Len(PlacedIn(layout, "safBadges")) = 3
    /\ MaxThreeTexts("safBadges") \cap Range(warnings) # {}
    /\ selectedIds[1] # selectedIds[2]

\* C2 as claimed: with more than 3 ids in a pyramid slot the warning is the
\* slot identifier, a colon, and " allows max 3; extra selections ignored.".
C2_WarningHasColon ==
    Computed =>
        \A s \in PyramidSlots :
            Len(IdsFor(selectedIds, s)) > 3 =>
                (s \o ": allows max 3; extra selections ignored.") \in Range(warnings)

\* C2 as amended: the warning is the slot identifier followed by a space (no
\* colon) and "allows max 3; extra selections ignored.", and the text with the
\* colon is never emitted.
C2_WarningText ==
    Computed =>
        \A s \in PyramidSlots :
            Len(IdsFor(selectedIds, s)) > 3 =>
                /\ (s \o " allows max 3; extra selections ignored.") \in Range(warnings)
                /\ (s \o ": allows max 3; extra selections ignored.") \notin Range(warnings)

C2_Witness ==
    /\ pc = "done"
    /\ selectedIds = <<"s1", "s2", "s1", "s2">>
    /\ warnings = <<"safBadges allows max 3; extra selections ignored.">>

\* C3: a single-occupancy slot with at least one resolved id gets exactly one
\* placement, the first such id with the slot's box, and the "multiple
\* selections" warning iff more than one id resolved to it; with none it gets
\* no placement and no warning.
C3_SingleOccupancy ==
    Computed =>
        \A s \in SingleSlots :
            LET k == Len(IdsFor(selectedIds, s))
                w == s \o ": multiple selections; only first shown."
                p == PlacedIn(layout, s)
            IN /\ k >= 1 =>
                    /\ Len(p) = 1
                    /\ p[1].id = IdsFor(selectedIds, s)[1]
                    /\ p[1].x = Px(slots[s].x) /\ p[1].y = Px(slots[s].y)
                    /\ p[1].w = Px(slots[s].w) /\ p[1].h = Px(slots[s].h)
               /\ k = 0 => Len(p) = 0
               /\ (w \in Range(warnings)) <=> (k > 1)

C3_Witness ==
    /\ pc = "done"
    /\ IdsFor(selectedIds, "leftSleeveRank") = <<"corporal", "sergeant">>
    /\ PlacedIds(layout, "leftSleeveRank") = <<"corporal">>
    /\ "leftSleeveRank: multiple selections; only first shown." \in Range(warnings)

\* The warnings the pyramid and single-occupancy slots can contribute.
OtherSlotTexts ==
    UNION {MaxThreeTexts(s) : s \in PyramidSlots}
      \cup {s \o ": multiple selections; only first shown." : s \in SingleSlots}

\* C4: the medals slot and the sleeve-proficiency slot get as many placements
\* as ids resolve to them, whatever the count, and contribute no warning.
C4_FlowCount ==
    Computed =>
        /\ \A s \in FlowSlots : Len(PlacedIn(layout, s)) = Len(IdsFor(selectedIds, s))
        /\ Range(warnings) \subseteq OtherSlotTexts

C4_Witness ==
    /\ pc = "done"
    /\ Len(PlacedIn(layout, "medalsBelowRightPocket")) = 4
    /\ warnings = <<>>

\* The selection without the ids that are no key of the item table or whose
\* item names a slot that is no key of the slot table.
Resolvable(ids) ==
    SelectSeq(ids, LAMBDA id : id \in DOMAIN badges /\ badges[id].slot \in DOMAIN slots)

\* C5: unresolvable ids never appear as placements and never cause a warning:
\* the result is that of the selection with those ids removed, and the empty
\* selection yields no placement and no warning.
C5_UnresolvableSkipped ==
    Computed =>
        /\ \A i \in 1..Len(layout) : layout[i].id \in Range(Resolvable(selectedIds))
        /\ layout = computeLayout(Resolvable(selectedIds)).layout
        /\ warnings = computeLayout(Resolvable(selectedIds)).warnings
        /\ Range(warnings) \subseteq OtherSlotTexts
        /\ Resolvable(selectedIds) = <<>> => layout = <<>> /\ warnings = <<>>

C5_Witness ==
    /\ pc = "done"
    /\ "orphan" \in Range(selectedIds) /\ GhostId \in Range(selectedIds)
    /\ Len(layout) = 2
    /\ warnings = <<>>

\* The half-open rectangles [x, x+w) x [y, y+h) of two placements are disjoint.
Disjoint(a, b) ==
    \/ a.x + a.w <= b.x \/ b.x + b.w <= a.x
    \/ a.y + a.h <= b.y \/ b.y + b.h <= a.y

\* C8: two distinct placements returned for the same slot never overlap.
C8_NoOverlap ==
    Computed =>
        \A i, j \in 1..Len(layout) :
            (i < j /\ layout[i].slot = layout[j].slot) => Disjoint(layout[i], layout[j])

C8_Witness ==
    /\ pc = "done"
    /\ slots = TightSlots
    /\ \/ /\ selectedIds = <<"s1", "s1", "s2", "m1">>
          /\ Len(PlacedIn(layout, "safBadges")) = 3
       \/ /\ Len(PlacedIn(layout, "rightSleeveProficiency")) = 2
          /\ Len(PlacedIn(layout, "medalsBelowRightPocket")) = 2

\* The ids an arrangement keeps: the first three of a pyramid slot, the first
\* of a single-occupancy slot.
Kept(ids, s) ==
    IF s \in PyramidSlots THEN Range(Prefix(IdsFor(ids, s), 3))
    ELSE Range(Prefix(IdsFor(ids, s), 1))

First(ids, s) == Prefix(IdsFor(ids, s), 1)

\* C9's hypothesis on two selections that are permutations of each other.
SameKeptAndFirst(a, b) ==
    /\ \A s \in PyramidSlots \cup SingleSlots : Kept(a, s) = Kept(b, s)
    /\ \A s \in PyramidSlots : First(a, s) = First(b, s)

\* The amended hypothesis: the ids of every slot come in the same order.
SameOrderPerSlot(a, b) ==
    \A s \in DOMAIN slots : IdsFor(a, s) = IdsFor(b, s)

SameResult ==
    /\ Range(prevLayout) = Range(layout)
    /\ Range(prevWarnings) = Range(warnings)

\* C9 as claimed: two permutations of a selection that keep the same items in
\* every pyramid and single-occupancy slot and the same first item in every
\* pyramid slot get the same set of placements and the same set of warnings.
C9_OrderOnlyKeptAndFirst ==
    (pc = "reordered" /\ SameKeptAndFirst(prevIds, selectedIds)) => SameResult

\* C9 as amended: two permutations of a selection in which the ids resolving
\* to each slot come in the same relative order get the same set of
\* placements and the same set of warnings.
C9_OrderPerSlot ==
    (pc = "reordered" /\ SameOrderPerSlot(prevIds, selectedIds)) => SameResult

C9_Witness ==
    /\ pc = "reordered"
    /\ prevIds = <<"m1", "sergeant", "m2">>
    /\ selectedIds = <<"sergeant", "m1", "m2">>
    /\ SameOrderPerSlot(prevIds, selectedIds)
    /\ Len(layout) = 3
    /\ layout # prevLayout

(***************************************************************************)
(* fitFontSize as a state machine: the arguments and the environment are   *)
(* drawn, the function runs, and runs again with the context cached.       *)
(***************************************************************************)
InitFont ==
    /\ call \in Calls
    /\ canvasSupported \in BOOLEAN
    /\ measureCtx = "null"
    /\ fontSize = 0
    /\ pc = "fontInput"
    /\ LayoutIdle /\ UiIdle

\* fitFontSize(b.label, b.w, b.h) (line 219); getCtx stores the context.
FitFontSize ==
    /\ pc = "fontInput"
    /\ measureCtx' = getCtx
    /\ fontSize' = fitFontSize(call.label, call.boxW, call.boxH, call.opts)
    /\ pc' = "fontDone"
    /\ UNCHANGED <<call, canvasSupported, layoutVars, uiVars>>

\* The next render calls it again on the same label and box.
FitFontSizeAgain ==
    /\ pc \in {"fontDone", "fontAgain"}
    /\ measureCtx' = getCtx
    /\ fontSize' = fitFontSize(call.label, call.boxW, call.boxH, call.opts)
    /\ pc' = "fontAgain"
    /\ UNCHANGED <<call, canvasSupported, layoutVars, uiVars>>

NextFont == FitFontSize \/ FitFontSizeAgain

SpecFont == InitFont /\ [][NextFont]_vars

Fitted == pc = "fontDone" \/ pc = "fontAgain"

Ratio10 ==
    IF "maxHeightRatio" \in DOMAIN call.opts THEN call.opts.maxHeightRatio ELSE 7

\* floor(boxHeight * maxHeightRatio)
HeightBound == (call.boxH * Ratio10) \div 10

\* C6 as claimed: for a non-empty label and a positive box the result is at
\* least 10 and at most floor(boxHeight * maxHeightRatio), with and without the
\* measurement context.
C6_FontWithinHeightRatio ==
    (Fitted /\ call.label.len > 0) => (fontSize >= 10 /\ fontSize <= HeightBound)

\* C6 as amended: the result is at least 10 and at most
\* max(10, floor(boxHeight * maxHeightRatio)), in both branches.
C6_FontRange ==
    (Fitted /\ call.label.len > 0) => (fontSize >= 10 /\ fontSize <= Max(10, HeightBound))

C6_Witness ==
    /\ pc = "fontDone"
    /\ measureCtx = "null"
    /\ call.label.len > 0
    /\ call.boxH = 20
    /\ call.opts = NoOpts
    /\ fontSize = 14

C10_ConfirmedOnlyWhileClean ==
    pc = "ui" =>
        /\ confirmed => sinceConfirm = "clean"
        /\ badgesGroup # <<>> =>
              /\ sinceConfirm = "clean"
              /\ Range(badgesGroup) =
                    Range(computeLayout(MemoIds(selectedRank, selectedSAF, selectedFOR,
                                                selectedMED, selectedPROF)).layout)

C10_Witness ==
    /\ pc = "ui"
    /\ confirmed
    /\ sinceConfirm = "clean"
    /\ Len(badgesGroup) = 4
    /\ selectedMED = <<"m1", "m2">>
    /\ exported = "blank"

====
